---- MODULE Spec2Model ----
(***************************************************************************)
(* Model of the Popup class (src/unnamed/part_000): the open/close state   *)
(* machine driven by CSS classes and setTimeout callbacks, the listener    *)
(* registration, and the drag gesture closure of addGrabListener.          *)
(*                                                                         *)
(* Lengths are integers counted in 1/Scale of a CSS pixel, so that         *)
(* fractional bounding boxes and Math.round are representable.  Times are  *)
(* milliseconds.  A percentage is an extended rational <<n, d>> with       *)
(* d >= 0: d > 0 is the number n/d, <<1,0>> / <<-1,0>> are +/-Infinity and *)
(* <<0,0>> is NaN, which is what the JavaScript division produces for a    *)
(* zero divisor.  Rounding of IEEE doubles is not modelled.                *)
(***************************************************************************)
EXTENDS Integers, Sequences, FiniteSets, TLC

VARIABLES
  popup,     \* the fields of the Popup instance
  dom,       \* class lists, custom properties and listeners of the nodes
  grab,      \* the closure variables of addGrabListener
  timers,    \* pending setTimeout callbacks, in the order they were set
  elapsed    \* history: ms spent in the opening or closing class since it
             \* was entered

vars == <<popup, dom, grab, timers, elapsed>>

-----------------------------------------------------------------------------
(* Bounds of the model *)

\* sub-pixel resolution: lengths are counted in 1/Scale px
Scale == 2
\* an opener click is explored while fewer close listeners than this exist
MaxCloseListeners == 2
\* a close request from Hidden is explored while fewer open listeners exist
MaxOpenListeners == 2

(* Program constants *)

DefaultOpeningTime == 500
DefaultClosingTime == 500
ReturnTime == 500
DeadZone == 10

\* time advances by at most this much in one step; every configured timing
\* is a multiple of it
TickMs == ReturnTime \div 2

\* 4.5, the divisor of the drag distance
DragDivisor == <<9, 2>>
\* mutant: every release closes
CloseThresholdOne == <<1, 1>>

\* percentage <= 0.7 closes
CloseThreshold == <<7, 10>>
MinPercentage == <<3, 10>>
MaxPercentage == <<1, 1>>

\* a custom property that is not set, and `undefined`; every other value is
\* a non-empty tuple: <<"ease">>, <<ms>>, <<length>>, <<x, y>>, <<n, d>>
Null == <<>>

Px(n) == n * Scale

-----------------------------------------------------------------------------
(* The environment: configurations and event data *)

\* the timings option given to the constructor: the defaults, a shorter
\* opening, a shorter closing and a longer closing
TimingOptions ==
  {[openingTime |-> DefaultOpeningTime, closingTime |-> DefaultClosingTime],
   [openingTime |-> DefaultOpeningTime \div 2,
    closingTime |-> DefaultClosingTime],
   [openingTime |-> DefaultOpeningTime,
    closingTime |-> DefaultClosingTime \div 2],
   [openingTime |-> DefaultOpeningTime,
    closingTime |-> DefaultClosingTime + DefaultClosingTime \div 2]}
\* what the GrabListenerOn setter stores: a NodeList / array, or one Element
GrabTargets == {"NodeList", "Element"}

\* getBoundingClientRect() of the opener
OpenerRects == {[x |-> Px(10), y |-> Px(20), width |-> Px(40), height |-> Px(20)]}
\* getBoundingClientRect() of the wrapper at mousedown: left and top
WrapperLeft == Px(50)
WrapperTops == {Px(0 - 20) - 1, 0, Px(20)}
\* pointer positions
DownX == Px(60)
DownYs == {Px(30)}
MoveXs == {Px(60)}
MoveYs == {Px(0 - 300), Px(3), Px(4), Px(30), Px(45)}

\* event.target of a click on the container
ClickTargets == {"container", "content", "inner"}
\* event.code of a keyup
KeyCodes == {"Escape", "Enter"}

-----------------------------------------------------------------------------
(* Arithmetic of the drag percentage *)

Abs(x) == IF x < 0 THEN 0 - x ELSE x

Min(a, b) == IF a < b THEN a ELSE b

Sign(x) == IF x > 0 THEN 1 ELSE IF x < 0 THEN 0 - 1 ELSE 0

\* Math.round of a length: the nearest whole pixel, halves towards +Infinity
MathRound(h) == Scale * ((2 * h + Scale) \div (2 * Scale))

IsNaN(p) == p[1] = 0 /\ p[2] = 0

\* JavaScript p > q and p < q: false when either side is NaN
Greater(p, q) == ~IsNaN(p) /\ ~IsNaN(q) /\ p[1] * q[2] > q[1] * p[2]

Less(p, q) == Greater(q, p)

\* mutant: < where the code has <=
LessOrEqualStrict(p, q) == ~IsNaN(p) /\ ~IsNaN(q) /\ p[1] * q[2] < q[1] * p[2]

\* JavaScript p <= q
LessOrEqual(p, q) == ~IsNaN(p) /\ ~IsNaN(q) /\ p[1] * q[2] <= q[1] * p[2]

\* a / b for integers a and a rational b = <<bn, bd>> (bd > 0), as an
\* extended rational with a denominator >= 0
Quotient(a, b) ==
  LET n == a * b[2]
      d == b[1]
  IN  IF d > 0 THEN <<n, d>>
      ELSE IF d < 0 THEN <<0 - n, 0 - d>>
      ELSE <<Sign(n), 0>>

\* 1 - q
OneMinus(q) == IF q[2] = 0 THEN <<0 - q[1], 0>> ELSE <<q[2] - q[1], q[2]>>

\* mutant: the lower clamp is missing
ClampUpperOnly(p) == IF Greater(p, <<1, 1>>) THEN <<1, 1>> ELSE p

\* the two clamping assignments of the mousemove handler
Clamp(p) ==
  LET q == IF Greater(p, MaxPercentage) THEN MaxPercentage ELSE p
  IN  IF Less(q, MinPercentage) THEN MinPercentage ELSE q

\* percentage = 1 - (initialPosition[1] - top) / (4.5 * initialPosition[1])
Percentage(initialY, top) ==
  Clamp(OneMinus(Quotient(initialY - top,
                          <<DragDivisor[1] * initialY, DragDivisor[2]>>)))

-----------------------------------------------------------------------------
(* DOM primitives *)

AnimationClasses ==
  [hidden |-> "popup--hidden", opening |-> "popup--opening",
   opened |-> "popup--opened", closing |-> "popup--closing"]

StateClasses == {AnimationClasses[k] : k \in DOMAIN AnimationClasses}

\* mutant: the old token is never removed
ClassReplaceKeepsOld(classList, old, new) == classList \cup {new}

\* DOMTokenList.replace: nothing happens when the old token is absent
ClassReplace(classList, old, new) ==
  IF old \in classList THEN (classList \ {old}) \cup {new} ELSE classList

ContainerProperties ==
  {"popup-background", "animating-transform-origin", "scale-start",
   "opening-timing", "opening-animation-timing-func", "scale-end",
   "closing-timing", "closing-animation-timing-func",
   "popup-moving-transition", "popup-moving-opacity"}

WrapperProperties ==
  {"popup-moving-transform-origin", "popup-moving-back-transition",
   "popup-moving-back-left", "popup-moving-back-top", "popup-moving-top",
   "popup-moving-left", "popup-moving-scale"}

\* style.setProperty for each given property; a null value removes it
setNodeCSSProperties(style, properties) ==
  [name \in DOMAIN style |->
     IF name \in DOMAIN properties THEN properties[name] ELSE style[name]]

\* a callback handed to setTimeout
Timer(callback, delay) ==
  [callback |-> callback, delay |-> delay, remaining |-> delay]

-----------------------------------------------------------------------------
(* The state after `new Popup(options)` *)

\* let locked = false; let isReturning = false; let offset, initialPosition;
\* let percentage = 1
GrabDeclared ==
  [locked |-> FALSE, isReturning |-> FALSE, offset |-> Null,
   initialPosition |-> Null, percentage |-> <<1, 1>>]

Constructed(openingTime, closingTime, escape, target) ==
  [popup |->
     [timings |-> [opening |-> openingTime, closing |-> closingTime],
      useEscapeToClose |-> escape,
      grabListenerOn |-> target,
      backgroundColor |-> "rgba(0,0,0,0.5)",
      animationTimingFunctions |->
        [opening |-> "cubic-bezier(.44,1.29,.55,1.15)", closing |-> "ease"],
      isMoveEventsAdded |-> FALSE,
      isCloseEventAdded |-> FALSE,
      isAnimating |-> FALSE],
   dom |->
     [container |->
        [classList |-> {"popup__container", AnimationClasses.hidden},
         style |-> [name \in ContainerProperties |->
                      IF name = "popup-background"
                      THEN <<"rgba(0,0,0,0.5)">> ELSE Null]],
      wrapper |->
        [classList |-> {"popup__wrapper"},
         style |-> [name \in WrapperProperties |-> Null]],
      html |-> [classList |-> {}],
      listeners |->
        [openerClick |-> 1, containerClick |-> 0, keyup |-> 0,
         mousedown |-> 0, mouseup |-> 0, mousemove |-> 0]],
   grab |-> GrabDeclared,
   timers |-> <<>>]

-----------------------------------------------------------------------------
(* The methods of Popup, as functions of the program state s *)

\* mutant: no open listener is registered
addOpenListenerSkipped(s) == s

addOpenListener(s) ==
  [s EXCEPT !.dom.listeners.openerClick = @ + 1]

addCloseListener(s) ==
  [s EXCEPT !.dom.listeners.containerClick = @ + 1,
            !.dom.listeners.keyup =
               IF s.popup.useEscapeToClose THEN @ + 1 ELSE @]

\* this._grabListenerOn.forEach is no function when the setter stored an
\* Element: the call throws a TypeError
addGrabListenerThrows(s) == s.popup.grabListenerOn = "Element"

\* the statements of addGrabListener that run; after a throw the mouseup and
\* mousemove registrations are not reached
addGrabListener(s) ==
  LET declared == [s EXCEPT !.grab = GrabDeclared,
                            !.popup.isMoveEventsAdded = TRUE]
  IN  IF addGrabListenerThrows(s) THEN declared
      ELSE [declared EXCEPT !.dom.listeners.mousedown = @ + 1,
                            !.dom.listeners.mouseup = @ + 1,
                            !.dom.listeners.mousemove = @ + 1]

\* mutant: the opening timer is set with the closing time
openingDelayFromClosing(s) == s.popup.timings.closing

\* the delay of the setTimeout in openPopup
openingDelay(s) == s.popup.timings.opening

\* mutant: the closing timer is set with the opening time
closingDelayFromOpening(s) == s.popup.timings.opening

\* the delay of the setTimeout in closePopup
closingDelay(s) == s.popup.timings.closing

openPopup(s, rect) ==
  IF s.popup.isAnimating THEN s
  ELSE
    LET xTransformOrigin == rect.x + (rect.width \div 2)
        yTransformOrigin == rect.y + (rect.height \div 2)
    IN  [s EXCEPT
          !.popup.isAnimating = TRUE,
          !.dom.html.classList = @ \cup {"has-popup"},
          !.dom.container.classList =
             ClassReplace(@, AnimationClasses.hidden, AnimationClasses.opening),
          !.dom.container.style = setNodeCSSProperties(@,
             ("animating-transform-origin" :>
                 <<xTransformOrigin, yTransformOrigin>>) @@
             ("scale-start" :> <<"0">>) @@
             ("opening-timing" :> <<s.popup.timings.opening>>) @@
             ("opening-animation-timing-func" :>
                 <<s.popup.animationTimingFunctions.opening>>)),
          !.timers = Append(@, Timer("opening", openingDelay(s)))]

\* the callback openPopup hands to setTimeout
openingTimeout(s) ==
  LET s1 == [s EXCEPT !.dom.container.classList =
               ClassReplace(@, AnimationClasses.opening, AnimationClasses.opened)]
      s2 == IF ~s1.popup.isCloseEventAdded THEN addCloseListener(s1) ELSE s1
      s3 == IF ~s2.popup.isMoveEventsAdded THEN addGrabListener(s2) ELSE s2
      threw == ~s2.popup.isMoveEventsAdded /\ addGrabListenerThrows(s2)
  IN  IF threw THEN s3 ELSE [s3 EXCEPT !.popup.isAnimating = FALSE]

closePopup(s) ==
  IF s.popup.isAnimating THEN s
  ELSE
    [s EXCEPT
      !.popup.isAnimating = TRUE,
      !.dom.container.classList =
         ClassReplace(@, AnimationClasses.opened, AnimationClasses.closing),
      !.dom.container.style = setNodeCSSProperties(@,
         ("scale-end" :> <<"0">>) @@
         ("closing-timing" :> <<s.popup.timings.closing>>) @@
         ("closing-animation-timing-func" :>
             <<s.popup.animationTimingFunctions.closing>>)),
      !.timers = Append(@, Timer("closing", closingDelay(s)))]

\* mutant: the closing callback leaves has-popup on html
closingTimeoutKeepsMarker(s) ==
  LET s1 == [s EXCEPT !.dom.container.classList =
               ClassReplace(@, AnimationClasses.closing, AnimationClasses.hidden)]
      s2 == addOpenListener(s1)
  IN  [s2 EXCEPT !.popup.isAnimating = FALSE]

\* the callback closePopup hands to setTimeout
closingTimeout(s) ==
  LET s1 == [s EXCEPT !.dom.container.classList =
               ClassReplace(@, AnimationClasses.closing, AnimationClasses.hidden)]
      s2 == addOpenListener(s1)
  IN  [s2 EXCEPT !.dom.html.classList = @ \ {"has-popup"},
                 !.popup.isAnimating = FALSE]

-----------------------------------------------------------------------------
(* The event listeners *)

\* the click listener of the container
containerClickListener(s, target) ==
  IF target # "content" THEN s ELSE closePopup(s)

\* the keyup listener of the document
keyupListener(s, code) ==
  IF code = "Escape" THEN closePopup(s) ELSE s

\* mutant: a mousedown is ignored only while a gesture is locked
mousedownIgnoredWhileLocked(s) == s.grab.locked

\* `if ( locked || isReturning ) return;` of the mousedown listener
mousedownIgnored(s) == s.grab.locked \/ s.grab.isReturning

\* the mousedown listener of the grab nodes; left/top are the wrapper's
\* bounding box
mousedownListener(s, clientX, clientY, left, top) ==
  IF mousedownIgnored(s) THEN s
  ELSE
    LET offset == <<MathRound(clientX - left), MathRound(clientY - top)>>
        initialPosition == <<left, top>>
    IN  [s EXCEPT
          !.grab.offset = offset,
          !.grab.initialPosition = initialPosition,
          !.dom.container.classList = @ \cup {"popup--moving"},
          !.dom.wrapper.style = setNodeCSSProperties(@,
             "popup-moving-transform-origin" :>
                <<clientX - initialPosition[1], clientY - initialPosition[2]>>),
          !.dom.container.style = setNodeCSSProperties(@,
             "popup-moving-transition" :> Null),
          !.grab.locked = TRUE]

\* the mouseup listener of the document
mouseupListener(s) ==
  IF ~s.grab.locked \/ s.grab.isReturning THEN s
  ELSE
    LET back == [s EXCEPT
          !.grab.locked = FALSE,
          !.grab.isReturning = TRUE,
          !.dom.wrapper.classList =
             ClassReplace(@, "popup__wrapper--moving",
                          "popup__wrapper--moving-back"),
          !.dom.wrapper.style = setNodeCSSProperties(@,
             ("popup-moving-back-transition" :> <<"all .5s">>) @@
             ("popup-moving-back-left" :> <<s.grab.initialPosition[1]>>) @@
             ("popup-moving-back-top" :> <<s.grab.initialPosition[2]>>)),
          !.dom.container.style = setNodeCSSProperties(@,
             ("popup-moving-opacity" :> Null) @@
             ("popup-moving-transition" :> <<"all .5s">>)),
          !.timers = Append(@, Timer("return", ReturnTime))]
    IN  IF LessOrEqual(s.grab.percentage, CloseThreshold)
        THEN closePopup(back) ELSE back

\* mutant: the return callback removes the classes but leaves isReturning set
returnTimeoutStillReturning(s) ==
  [s EXCEPT !.dom.wrapper.classList = @ \ {"popup__wrapper--moving-back"},
            !.dom.container.classList = @ \ {"popup--moving"}]

\* the callback the mouseup listener hands to setTimeout
returnTimeout(s) ==
  [s EXCEPT !.dom.wrapper.classList = @ \ {"popup__wrapper--moving-back"},
            !.dom.container.classList = @ \ {"popup--moving"},
            !.grab.isReturning = FALSE]

\* the mousemove listener of the document
mousemoveListener(s, clientX, clientY) ==
  IF ~s.grab.locked \/ s.grab.isReturning THEN s
  ELSE
    LET top == clientY - s.grab.offset[2]
        percentage == Percentage(s.grab.initialPosition[2], top)
    IN  IF Abs(top - s.grab.initialPosition[2]) < Px(DeadZone) THEN s
        ELSE [s EXCEPT
               !.grab.percentage = percentage,
               !.dom.wrapper.classList = @ \cup {"popup__wrapper--moving"},
               !.dom.wrapper.style = setNodeCSSProperties(@,
                  ("popup-moving-top" :> <<top>>) @@
                  ("popup-moving-left" :> <<clientX - s.grab.offset[1]>>) @@
                  ("popup-moving-scale" :> percentage)),
               !.dom.container.style = setNodeCSSProperties(@,
                  "popup-moving-opacity" :> percentage)]

\* the listener an event reaches, applied to the program state
Listener(event, s) ==
  CASE event.type = "openerClick" -> openPopup(s, event.rect)
    [] event.type = "containerClick" -> containerClickListener(s, event.target)
    [] event.type = "keyup" -> keyupListener(s, event.code)
    [] event.type = "mousedown" ->
         mousedownListener(s, event.clientX, event.clientY, event.left, event.top)
    [] event.type = "mouseup" -> mouseupListener(s)
    [] event.type = "mousemove" ->
         mousemoveListener(s, event.clientX, event.clientY)

\* a listener registered n times runs n times on one event
RECURSIVE Dispatch(_, _, _)
Dispatch(event, s, n) ==
  IF n = 0 THEN s ELSE Dispatch(event, Listener(event, s), n - 1)

\* click on the opener: every {once: true} listener is removed and run
onOpenerClick(s, rect) ==
  Dispatch([type |-> "openerClick", rect |-> rect],
           [s EXCEPT !.dom.listeners.openerClick = 0],
           s.dom.listeners.openerClick)

onContainerClick(s, target) ==
  Dispatch([type |-> "containerClick", target |-> target], s,
           s.dom.listeners.containerClick)

onKeyup(s, code) ==
  Dispatch([type |-> "keyup", code |-> code], s, s.dom.listeners.keyup)

onMouseDown(s, clientX, clientY, left, top) ==
  Dispatch([type |-> "mousedown", clientX |-> clientX, clientY |-> clientY,
            left |-> left, top |-> top], s, s.dom.listeners.mousedown)

onMouseUp(s) ==
  Dispatch([type |-> "mouseup"], s, s.dom.listeners.mouseup)

onMouseMove(s, clientX, clientY) ==
  Dispatch([type |-> "mousemove", clientX |-> clientX, clientY |-> clientY],
           s, s.dom.listeners.mousemove)

-----------------------------------------------------------------------------
(* The state machine *)

Cur == [popup |-> popup, dom |-> dom, grab |-> grab, timers |-> timers]

HasClass(s, class) == class \in s.dom.container.classList

\* the container is in one of the two animated state classes
InAnimatedClass(s) ==
  \/ HasClass(s, AnimationClasses.opening)
  \/ HasClass(s, AnimationClasses.closing)

\* the state class was put on the container by the step from s to r
Enters(s, r, class) == ~HasClass(s, class) /\ HasClass(r, class)

\* the step to program state r; `elapsed` restarts when the opening or the
\* closing class is put on the container
Commit(r) ==
  /\ popup' = r.popup
  /\ dom' = r.dom
  /\ grab' = r.grab
  /\ timers' = r.timers
  /\ elapsed' = IF \/ Enters(Cur, r, AnimationClasses.opening)
                   \/ Enters(Cur, r, AnimationClasses.closing)
                THEN 0 ELSE elapsed

\* a request that starts an opening is explored only below MaxCloseListeners
\* (each completed opening registers listeners), one that starts a closing
\* only below MaxOpenListeners (each completed closing registers one)
Explored(r) ==
  (~popup.isAnimating /\ r.popup.isAnimating) =>
     \A i \in 1..Len(r.timers) :
        /\ r.timers[i].callback = "opening" =>
              dom.listeners.containerClick < MaxCloseListeners
        /\ r.timers[i].callback = "closing" =>
              dom.listeners.openerClick < MaxOpenListeners

Init ==
  /\ \E timing \in TimingOptions, escape \in BOOLEAN, target \in GrabTargets :
       LET s == Constructed(timing.openingTime, timing.closingTime, escape,
                            target)
       IN  popup = s.popup /\ dom = s.dom /\ grab = s.grab /\ timers = s.timers
  /\ elapsed = 0

OpenerClick ==
  \E rect \in OpenerRects :
     LET r == onOpenerClick(Cur, rect) IN Explored(r) /\ Commit(r)

ContainerClick ==
  \E target \in ClickTargets :
     LET r == onContainerClick(Cur, target) IN Explored(r) /\ Commit(r)

Keyup ==
  \E code \in KeyCodes :
     LET r == onKeyup(Cur, code) IN Explored(r) /\ Commit(r)

MouseDown ==
  \E clientY \in DownYs, top \in WrapperTops :
     LET r == onMouseDown(Cur, DownX, clientY, WrapperLeft, top)
     IN  Explored(r) /\ Commit(r)

MouseMove ==
  \E clientX \in MoveXs, clientY \in MoveYs :
     LET r == onMouseMove(Cur, clientX, clientY)
     IN  Explored(r) /\ Commit(r)

MouseUp ==
  LET r == onMouseUp(Cur) IN Explored(r) /\ Commit(r)

\* time passes up to the next deadline, by at most TickMs
Tick ==
  /\ timers # <<>>
  /\ \A i \in 1..Len(timers) : timers[i].remaining > 0
  /\ \E d \in 1..TickMs :
       /\ \A i \in 1..Len(timers) : d <= timers[i].remaining
       /\ \/ d = TickMs
          \/ \E i \in 1..Len(timers) : d = timers[i].remaining
       /\ timers' = [i \in 1..Len(timers) |->
                       [timers[i] EXCEPT !.remaining = @ - d]]
       /\ elapsed' = IF InAnimatedClass(Cur) THEN elapsed + d ELSE elapsed
  /\ UNCHANGED <<popup, dom, grab>>

\* timer i is due, and no timer set before it with a delay no longer than its
\* own is still waiting (the order the HTML timer algorithm guarantees)
Due(i) ==
  /\ timers[i].remaining = 0
  /\ \A j \in 1..(i - 1) :
        ~(timers[j].remaining = 0 /\ timers[j].delay <= timers[i].delay)

Without(i) == [j \in 1..(Len(timers) - 1) |->
                 IF j < i THEN timers[j] ELSE timers[j + 1]]

OpeningTimeout ==
  \E i \in 1..Len(timers) :
     /\ timers[i].callback = "opening"
     /\ Due(i)
     /\ Commit(openingTimeout([Cur EXCEPT !.timers = Without(i)]))

ClosingTimeout ==
  \E i \in 1..Len(timers) :
     /\ timers[i].callback = "closing"
     /\ Due(i)
     /\ Commit(closingTimeout([Cur EXCEPT !.timers = Without(i)]))

ReturnTimeout ==
  \E i \in 1..Len(timers) :
     /\ timers[i].callback = "return"
     /\ Due(i)
     /\ Commit(returnTimeout([Cur EXCEPT !.timers = Without(i)]))

Next ==
  \/ OpenerClick
  \/ Keyup
  \/ ContainerClick
  \/ MouseDown
  \/ MouseMove
  \/ MouseUp
  \/ Tick
  \/ OpeningTimeout
  \/ ClosingTimeout
  \/ ReturnTimeout

Spec == Init /\ [][Next]_vars

\* time passes and a timer that is due runs its callback: the browser's event
\* loop never starves the timer task source. Pointer, click and key events
\* are the user's and need not happen.
TimersRun ==
  /\ WF_vars(Tick)
  /\ WF_vars(OpeningTimeout)
  /\ WF_vars(ClosingTimeout)
  /\ WF_vars(ReturnTimeout)

\* the configurations in which a gesture can be made and every kind of event
\* has a listener: grab listeners on a node list, Escape enabled, and the
\* closing time below, at and above the return time
InitDraggable ==
  /\ Init
  /\ popup.grabListenerOn = "NodeList"
  /\ popup.useEscapeToClose
  /\ popup.timings.opening = DefaultOpeningTime

FairSpec == InitDraggable /\ [][Next]_vars /\ TimersRun

-----------------------------------------------------------------------------
(* Vocabulary of the properties *)

IsHidden == HasClass(Cur, AnimationClasses.hidden)
IsOpening == HasClass(Cur, AnimationClasses.opening)
IsOpened == HasClass(Cur, AnimationClasses.opened)
IsClosing == HasClass(Cur, AnimationClasses.closing)

\* the state classes the container carries
StateClassesOn(classList) == classList \cap StateClasses

\* the pending animation-completion timers
AnimationTimers(ts) ==
  {i \in 1..Len(ts) : ts[i].callback \in {"opening", "closing"}}

\* a number n/d with n/d <= 0.7, and one with n/d > 0.7
AtMost70(p) == p[2] > 0 /\ 10 * p[1] <= 7 * p[2]
Above70(p) == p[2] > 0 /\ 10 * p[1] > 7 * p[2]

\* a number n/d with 0.3 <= n/d <= 1
InRange(p) == Len(p) = 2 /\ p[2] > 0 /\ 3 * p[2] <= 10 * p[1] /\ p[1] <= p[2]

\* an Escape keyup
EscapeKeyup ==
  LET r == onKeyup(Cur, "Escape") IN Explored(r) /\ Commit(r)

\* a mouseup that ends a gesture
Release == dom.listeners.mouseup > 0 /\ grab.locked /\ ~grab.isReturning
             /\ MouseUp

\* the step leaves everything a close transition touches as it was
NoCloseEffect ==
  /\ popup' = popup
  /\ dom'.listeners = dom.listeners
  /\ dom'.html = dom.html
  /\ StateClassesOn(dom'.container.classList) =
        StateClassesOn(dom.container.classList)
  /\ Cardinality(AnimationTimers(timers')) = Cardinality(AnimationTimers(timers))

-----------------------------------------------------------------------------
(* C1..C10 *)

\* C1: a close request (container click, Escape keyup, drag release) that
\* arrives while the container is not Opened is a no-op: a click or keyup
\* changes nothing at all, and a release changes no state class, flag, marker
\* class, animation timer or listener.
C1_CloseOnlyFromOpened ==
  [][ /\ (~IsOpened /\ (ContainerClick \/ Keyup)) => UNCHANGED vars
      /\ (~IsOpened /\ Release) => NoCloseEffect ]_vars

\* C2: while Opened and not animating, a click whose target is the content
\* node does not start Closing and a click whose target is the container
\* (the backdrop) does.
C2_ContentClickKeepsOpen ==
  (IsOpened /\ ~popup.isAnimating /\ dom.listeners.containerClick > 0) =>
     /\ ~HasClass(onContainerClick(Cur, "content"), AnimationClasses.closing)
     /\ HasClass(onContainerClick(Cur, "container"), AnimationClasses.closing)

\* C3: an Escape keyup changes the state only when useEscapeToClose is true
\* and the container is Opened; otherwise it changes nothing.
C3_EscapeOnlyWhenOpened ==
  [][ (EscapeKeyup /\ ~(popup.useEscapeToClose = TRUE /\ IsOpened))
         => UNCHANGED vars ]_vars

\* C4: the container carries the hidden class alone after construction and
\* exactly one of the four state classes in every reachable state.
C4_ExactlyOneStateClass ==
  /\ StateClassesOn(dom.container.classList) = {AnimationClasses.hidden}
  /\ [](Cardinality(StateClassesOn(dom.container.classList)) = 1)

\* C4 witness: the second closing, during a drag
C4_Witness ==
  /\ IsClosing
  /\ dom.listeners.containerClick = 2
  /\ "popup--moving" \in dom.container.classList

\* C5: an accepted opener click while Hidden puts the container in Opening in
\* the same step; the container becomes Opened only by the opening timer's
\* callback, when exactly the configured opening time has elapsed in Opening;
\* an opener click during Opening changes nothing.
C5_OpenedOnlyAfterOpeningTime ==
  [][ /\ (IsHidden /\ ~popup.isAnimating
             /\ dom.listeners.openerClick > 0 /\ OpenerClick)
         => HasClass(Cur, AnimationClasses.opening)'
      /\ (~IsOpened /\ IsOpened') =>
            /\ IsOpening
            /\ OpeningTimeout
            /\ elapsed = popup.timings.opening
      /\ (IsOpening /\ OpenerClick) => UNCHANGED vars ]_vars

\* C5 witness: Opened, reached after a non-default opening time
C5_Witness ==
  /\ IsOpened
  /\ popup.timings.opening # DefaultOpeningTime
  /\ elapsed = popup.timings.opening
  /\ AnimationTimers(timers) = {}

\* C6: an open or close request (opener click, container click, keyup) that
\* arrives while isAnimating is true leaves the whole state unchanged.
C6_RequestsDroppedWhileAnimating ==
  [][ (popup.isAnimating /\ (OpenerClick \/ ContainerClick \/ Keyup))
         => UNCHANGED vars ]_vars

\* C7 as claimed: every release of a drag whose percentage is <= 0.7 leaves
\* the container in Closing.
C7_EveryLowReleaseCloses ==
  [][ (AtMost70(grab.percentage) /\ Release) => IsClosing' ]_vars

\* C7 as amended: a release of a drag whose percentage is <= 0.7, arriving
\* while the container is Opened, leaves the container in Closing with the
\* closing timer set.
C7_LowReleaseClosesWhenOpened ==
  [][ (IsOpened /\ AtMost70(grab.percentage) /\ Release) =>
         /\ IsClosing'
         /\ popup'.isAnimating
         /\ \E i \in AnimationTimers(timers') :
               timers'[i] = Timer("closing", popup.timings.closing) ]_vars

\* C7 witness: just after a release at exactly 0.7 that closed the popup
C7_Witness ==
  /\ IsClosing
  /\ grab.isReturning
  /\ grab.percentage = <<126 * Scale, 180 * Scale>>
  /\ timers = <<Timer("return", ReturnTime),
                Timer("closing", popup.timings.closing)>>

\* C8: a release of a drag whose percentage is > 0.7 starts no close: the
\* moving-back left/top are the initial position taken at mousedown, and the
\* state class, the fields of the popup and the animation timers stay.
C8_HighReleaseReturns ==
  [][ (Above70(grab.percentage) /\ Release) =>
         /\ dom'.wrapper.style["popup-moving-back-left"] =
               <<grab.initialPosition[1]>>
         /\ dom'.wrapper.style["popup-moving-back-top"] =
               <<grab.initialPosition[2]>>
         /\ grab'.isReturning /\ ~grab'.locked
         /\ NoCloseEffect ]_vars

\* C8 witness: returning after a release with 0.7 < percentage < 1, still
\* Opened
C8_Witness ==
  /\ IsOpened /\ ~popup.isAnimating
  /\ grab.isReturning
  /\ Above70(grab.percentage) /\ grab.percentage[1] < grab.percentage[2]
  /\ dom.wrapper.style["popup-moving-back-top"] = <<grab.initialPosition[2]>>
  /\ dom.wrapper.style["popup-moving-top"] # <<grab.initialPosition[2]>>

\* C9: the percentage and the scale and opacity properties written from it
\* are numbers within [0.3, 1] in every reachable state.
C9_PercentageInRange ==
  /\ InRange(grab.percentage)
  /\ dom.wrapper.style["popup-moving-scale"] # Null =>
        InRange(dom.wrapper.style["popup-moving-scale"])
  /\ dom.container.style["popup-moving-opacity"] # Null =>
        InRange(dom.container.style["popup-moving-opacity"])

\* C9 witness: a drag from an initial top of 0 whose quotient is infinite,
\* clamped to 0.3
C9_Witness ==
  /\ grab.locked
  /\ grab.initialPosition # Null /\ grab.initialPosition[2] = 0
  /\ dom.wrapper.style["popup-moving-top"] # Null
  /\ dom.wrapper.style["popup-moving-top"][1] < 0
  /\ grab.percentage = MinPercentage
  /\ dom.container.style["popup-moving-opacity"] = MinPercentage

\* C10: the close listeners (container click, Escape keyup) and the grab
\* listeners are each registered at most once, whatever the number of cycles.
C10_ListenersRegisteredOnce ==
  /\ dom.listeners.containerClick <= 1
  /\ dom.listeners.keyup <= 1
  /\ dom.listeners.mousedown <= 1
  /\ dom.listeners.mouseup <= 1
  /\ dom.listeners.mousemove <= 1

-----------------------------------------------------------------------------
(* C11..C20 *)

\* the steps of the cycle Hidden -> Opening -> Opened -> Closing -> Hidden
CycleSteps ==
  {<<AnimationClasses.hidden, AnimationClasses.opening>>,
   <<AnimationClasses.opening, AnimationClasses.opened>>,
   <<AnimationClasses.opened, AnimationClasses.closing>>,
   <<AnimationClasses.closing, AnimationClasses.hidden>>}

\* C11: the state class changes only along Hidden -> Opening -> Opened ->
\* Closing -> Hidden; the step Closing -> Hidden is taken by the closing
\* timer's callback when exactly the configured closing time has elapsed in
\* Closing, and that step registers one more open listener, removes has-popup
\* from html and clears isAnimating.
C11_StateClassFollowsCycle ==
  [][ StateClassesOn(dom'.container.classList) #
         StateClassesOn(dom.container.classList) =>
        /\ \E step \in CycleSteps :
              /\ StateClassesOn(dom.container.classList) = {step[1]}
              /\ StateClassesOn(dom'.container.classList) = {step[2]}
        /\ (IsClosing /\ IsHidden') =>
              /\ ClosingTimeout
              /\ elapsed = popup.timings.closing
              /\ dom'.listeners.openerClick = dom.listeners.openerClick + 1
              /\ "has-popup" \in dom.html.classList
              /\ "has-popup" \notin dom'.html.classList
              /\ popup.isAnimating /\ ~popup'.isAnimating ]_vars

\* C11 witness: Hidden again after a whole cycle with a non-default closing
\* time
C11_Witness ==
  /\ IsHidden /\ ~popup.isAnimating
  /\ dom.listeners.containerClick = 1
  /\ dom.listeners.openerClick = 1
  /\ popup.timings.closing # DefaultClosingTime
  /\ elapsed = popup.timings.closing
  /\ "has-popup" \notin dom.html.classList

\* C12: at most one animation-completion timer is pending, one is pending
\* exactly when isAnimating is true, and a pending animation timer leaves the
\* timer list only by firing at its deadline, with its delay and deadline
\* untouched by every other step.
C12_OneAnimationInFlight ==
  /\ [](/\ Cardinality(AnimationTimers(timers)) <= 1
        /\ popup.isAnimating <=> AnimationTimers(timers) # {})
  /\ [][ \A i \in AnimationTimers(timers) :
            \/ /\ OpeningTimeout \/ ClosingTimeout
               /\ timers[i].remaining = 0
               /\ AnimationTimers(timers') = {}
            \/ \E j \in AnimationTimers(timers') :
                  /\ timers'[j].callback = timers[i].callback
                  /\ timers'[j].delay = timers[i].delay
                  /\ \/ timers'[j].remaining = timers[i].remaining
                     \/ Tick /\ timers'[j].remaining < timers[i].remaining
        ]_vars

-----------------------------------------------------------------------------
(* The constructor, as a function of its options and of the document *)

Roles == {"opener", "container", "wrapper", "content", "closeButton"}

\* what the option of a role or of the grab target can hold: nothing, an
\* HTMLElement, a selector string that matches, a selector string that matches
\* nothing, a value that is neither a string nor a node
OptionKinds == {"undefined", "node", "selectorHit", "selectorMiss", "number"}

\* JavaScript values of the timing and colour options: their type, whether
\* parseFloat and `- 0` both give a number, and that number
Undefined == [type |-> "undefined", numeric |-> FALSE, value |-> 0]
Number(n) == [type |-> "number", numeric |-> TRUE, value |-> n]
NumericString(n) == [type |-> "string", numeric |-> TRUE, value |-> n]
Text == [type |-> "string", numeric |-> FALSE, value |-> 0]

Truthy(v) ==
  CASE v.type = "undefined" -> FALSE
    [] v.type = "number" -> v.value # 0
    [] OTHER -> TRUE

isString(v) == v.type = "string"

isNumber(v) == v.numeric

\* the configurations the constructor is run on: the options given and the
\* roles whose default selector matches an element of the document
Configurations ==
  [selectors : [opener : OptionKinds, container : OptionKinds,
                wrapper : {"undefined", "selectorMiss"},
                content : {"undefined"}, closeButton : {"undefined"}],
   openingTime : {Undefined, Number(250), NumericString(250), Text},
   closingTime : {Undefined},
   useEscapeToClose : {"undefined", "false"},
   containerBackgroundColor : {Undefined, Text, Number(7)},
   setGrabListenerOn : OptionKinds,
   defaults : {d \in SUBSET Roles : {"content", "closeButton"} \subseteq d}]

\* set nodes, for one role: the node stored and the console.error calls made
resolveNode(kind, defaultMatches) ==
  LET logged == IF kind \in {"selectorMiss", "number"} THEN 1 ELSE 0
  IN  IF kind \in {"node", "selectorHit"}
      THEN [node |-> "option", errors |-> 0]
      ELSE IF defaultMatches
           THEN [node |-> "default", errors |-> logged]
           ELSE [node |-> "null", errors |-> logged + 1]

\* set timings, for one of the two times
timingOf(v, default) ==
  IF Truthy(v) /\ isNumber(v) THEN v.value ELSE default

\* set GrabListenerOn: what is stored and the console.error calls made
resolveGrab(kind, wrapper) ==
  LET logged == IF kind \in {"selectorMiss", "number"} THEN 1 ELSE 0
  IN  CASE kind = "node" -> [target |-> "Element", errors |-> 0]
        [] kind = "selectorHit" -> [target |-> "NodeList", errors |-> 0]
        [] OTHER ->
             IF wrapper # "null"
             THEN [target |-> "NodeList", errors |-> logged]
             ELSE [target |-> "null", errors |-> logged + 1]

RECURSIVE SumErrors(_, _)
SumErrors(nodes, roles) ==
  IF roles = {} THEN 0
  ELSE LET role == CHOOSE r \in roles : TRUE
       IN  nodes[role].errors + SumErrors(nodes, roles \ {role})

\* new Popup(options): the statements of the constructor in order, up to the
\* first one that throws
constructor(options) ==
  LET nodes == [role \in Roles |->
                  resolveNode(options.selectors[role],
                              role \in options.defaults)]
      grabbed == resolveGrab(options.setGrabListenerOn, nodes.wrapper.node)
      \* setNodeCSSProperties(this._nodes._container, ...) reads node.style
      colourThrows == nodes.container.node = "null"
      \* this._nodes._opener.addEventListener
      listenerThrows == nodes.opener.node = "null"
      fields ==
        [options |-> options,
         nodes |-> [role \in Roles |-> nodes[role].node],
         timings |->
           [opening |-> timingOf(options.openingTime, DefaultOpeningTime),
            closing |-> timingOf(options.closingTime, DefaultClosingTime)],
         useEscapeToClose |-> options.useEscapeToClose # "false",
         backgroundColor |->
           IF /\ Truthy(options.containerBackgroundColor)
              /\ isString(options.containerBackgroundColor)
           THEN "option" ELSE "rgba(0,0,0,0.5)"]
  IN  IF colourThrows
      THEN [phase |-> "thrown", at |-> "set backgroundColor",
            errors |-> SumErrors(nodes, Roles), fields |-> fields,
            grabListenerOn |-> "null", openListeners |-> 0]
      ELSE IF listenerThrows
      THEN [phase |-> "thrown", at |-> "addOpenListener",
            errors |-> SumErrors(nodes, Roles) + grabbed.errors,
            fields |-> fields,
            grabListenerOn |-> grabbed.target, openListeners |-> 0]
      ELSE [phase |-> "constructed", at |-> "end",
            errors |-> SumErrors(nodes, Roles) + grabbed.errors,
            fields |-> fields,
            grabListenerOn |-> grabbed.target, openListeners |-> 1]

\* before `new Popup(options)`: the options and the document are chosen
InitConstructor ==
  /\ \E options \in Configurations : popup = [phase |-> "new", options |-> options]
  /\ dom = Null /\ grab = Null /\ timers = <<>> /\ elapsed = 0

Construct ==
  /\ popup.phase = "new"
  /\ popup' = constructor(popup.options)
  /\ UNCHANGED <<dom, grab, timers, elapsed>>

NextConstructor == Construct

SpecConstructor == InitConstructor /\ [][NextConstructor]_vars

\* the configuration has an error: a role that no element fills, or an option
\* of a wrong type
ConfigurationError(options) ==
  \/ \E role \in Roles :
        /\ options.selectors[role] \notin {"node", "selectorHit"}
        /\ \/ role \notin options.defaults
           \/ options.selectors[role] # "undefined"
  \/ options.setGrabListenerOn \in {"selectorMiss", "number"}

\* C13: the constructor run on any configuration completes without throwing,
\* and a configuration error is logged to the console.
C13_ConstructorNeverThrows ==
  popup.phase # "new" =>
     /\ popup.phase = "constructed"
     /\ ConfigurationError(popup.fields.options) => popup.errors > 0

\* the percentage of the claim: 1 - dy / (4.5 * initialY), clamped to
\* [0.3, 1], with dy the displacement of the wrapper's top below initialY
DownwardPercentage(initialY, top) ==
  Clamp(OneMinus(Quotient(top - initialY,
                          <<DragDivisor[1] * initialY, DragDivisor[2]>>)))

\* C14: a pointer-move beyond the dead-zone sets percentage to
\* clamp(1 - dy / (4.5 * initialY), 0.3, 1) with dy the downward displacement
\* of the wrapper from its initial top; for a positive initialY a move
\* downward leaves it below 1 and a move upward leaves it at 1.
C14_DragDownShrinks ==
  [][ (dom.listeners.mousemove > 0 /\ grab.locked /\ ~grab.isReturning
         /\ MouseMove /\ vars' # vars) =>
        LET initialY == grab.initialPosition[2]
            top == dom'.wrapper.style["popup-moving-top"][1]
        IN  /\ grab'.percentage = DownwardPercentage(initialY, top)
            /\ initialY > 0 =>
                 /\ top > initialY => Less(grab'.percentage, MaxPercentage)
                 /\ top < initialY => grab'.percentage = MaxPercentage
    ]_vars

\* a pointer-move of the gesture in progress went beyond the dead-zone: the
\* wrapper carries the moving class from such a move until the pointer-up
MovedThisGesture == "popup__wrapper--moving" \in dom.wrapper.classList

\* C15: the percentage is created anew, at 1, by the pointer-down that starts
\* a gesture, and the release of a gesture with no pointer-move beyond the
\* dead-zone never has the effect of a close request.
C15_PercentagePerGesture ==
  [][ /\ (dom.listeners.mousedown > 0 /\ ~grab.locked /\ ~grab.isReturning
            /\ MouseDown /\ grab'.locked)
         => grab'.percentage = MaxPercentage
      /\ (Release /\ ~MovedThisGesture) => NoCloseEffect ]_vars

\* C16: locked and isReturning are never both true; a pointer-down while
\* locked or isReturning changes nothing; a pointer-move or pointer-up changes
\* nothing unless locked is true and isReturning is false.
C16_OneGestureInFlight ==
  /\ [](~(grab.locked /\ grab.isReturning))
  /\ [][ /\ (grab.locked \/ grab.isReturning) => ~MouseDown
         /\ ~(grab.locked /\ ~grab.isReturning) => ~(MouseMove \/ MouseUp)
       ]_vars

\* C16 witness: the wrapper is on its way back after a release, with the
\* three grab listeners registered and a pointer position a pointer-down
\* could take
C16_Witness ==
  /\ grab.isReturning /\ ~grab.locked
  /\ dom.listeners.mousedown > 0
  /\ dom.listeners.mousemove > 0
  /\ dom.listeners.mouseup > 0
  /\ \E i \in 1..Len(timers) :
        timers[i].callback = "return" /\ timers[i].remaining < timers[i].delay

\* the wrapper has been given back: the return timer's callback has run
Returned == ~grab.isReturning /\ "popup--moving" \notin dom.container.classList

\* C17: after the pointer-up that ends a gesture (isReturning set) a state
\* with isReturning false and no moving class on the container is eventually
\* reached, whatever else happens meanwhile, and until then no pointer-down
\* starts a gesture.
C17_ReturnCompletes ==
  /\ grab.isReturning ~> Returned
  /\ [][ grab.isReturning =>
           /\ ~grab'.locked
           /\ ~grab'.isReturning => (ReturnTimeout /\ Returned') ]_vars

\* C17 witness: the gesture closed the popup and the return timer fired before
\* the closing timer: given back while still Closing
C17_Witness ==
  /\ IsClosing /\ Returned /\ ~grab.locked
  /\ LessOrEqual(grab.percentage, CloseThreshold)
  /\ dom.wrapper.style["popup-moving-back-top"] # Null
  /\ \E i \in 1..Len(timers) :
        timers[i].callback = "closing" /\ timers[i].delay > ReturnTime

\* C18: isAnimating is true exactly when the container is Opening or Closing.
C18_AnimatingIffTransitional ==
  popup.isAnimating <=> (IsOpening \/ IsClosing)

\* C19: html carries has-popup exactly when the container is Opening, Opened
\* or Closing, that is, not Hidden.
C19_MarkerIffNotHidden ==
  "has-popup" \in dom.html.classList <=> (IsOpening \/ IsOpened \/ IsClosing)

\* C19 witness: a close request was accepted while Hidden (the closing timer
\* is pending): the popup is busy, yet html carries no marker
C19_Witness ==
  /\ IsHidden /\ popup.isAnimating
  /\ "has-popup" \notin dom.html.classList
  /\ \E i \in 1..Len(timers) : timers[i].callback = "closing"
  /\ dom.listeners.containerClick > 0

\* C20: whenever the container is Hidden and isAnimating is false, an open
\* listener is registered on the opener and a click on the opener starts
\* Opening.
C20_HiddenIdleCanOpen ==
  (IsHidden /\ ~popup.isAnimating) =>
     /\ dom.listeners.openerClick >= 1
     /\ \A rect \in OpenerRects :
           LET r == onOpenerClick(Cur, rect)
           IN  /\ HasClass(r, AnimationClasses.opening)
               /\ r.popup.isAnimating
               /\ \E i \in 1..Len(r.timers) : r.timers[i].callback = "opening"

\* C20 witness: Hidden and idle after a close request that was accepted while
\* Hidden: its closing timer registered a second open listener
C20_Witness ==
  /\ IsHidden /\ ~popup.isAnimating
  /\ dom.listeners.openerClick = 2
  /\ dom.listeners.containerClick > 0

====
